---- MODULE Spec2Model ----
(***************************************************************************)
(* Model of asio's cancellation_signal / cancellation_slot /               *)
(* cancellation_state (asio/cancellation_signal.hpp).                      *)
(*                                                                         *)
(* Memory is modelled explicitly: a heap of blocks handed out by           *)
(* ::operator new, each either free, raw (allocated, no object in it) or   *)
(* holding a cancellation_handler<H> object.  A cancellation_signal is one *)
(* pointer cell handler_; root signals are created by the user, a child    *)
(* signal is the member signal_ of a cancellation_state::impl that lives   *)
(* inside the handler block installed in the parent slot.  A slot is the   *)
(* address of such a cell (or null).                                       *)
(***************************************************************************)
EXTENDS Integers, Sequences, FiniteSets, TLC

\* ---------------------------------------------------------------- bounds
MaxBlocks  == 3      \* addresses ::operator new can hand out
MaxEmits   == 2      \* emit() calls the user makes on one root signal

NULL == 0

\* how a process can be terminated: a failed assert(), or the trap of an
\* access through a null pointer
Faults == {"assert", "null_deref"}

Roots    == {1}                   \* root cancellation_signal objects
Blocks   == 1..MaxBlocks
Ptrs     == Blocks \cup {NULL}
States   == {"s1", "s2"}          \* cancellation_state objects
Handlers == {"h1", "h2"}          \* user handler types H
Reentering == {"h_clear", "h_swap"}  \* user handlers that use a slot when invoked
Types    == Handlers \cup Reentering \cup {"impl", "op_cancel"}

\* sizeof(cancellation_handler<H>) for the handler types of the model
sizeof(H) == CASE H = "h1"        -> 1
               [] H = "h_clear"   -> 1
               [] H = "h_swap"    -> 1
               [] H = "impl"      -> 2
               [] H = "op_cancel" -> 2
               [] H = "h2"        -> 3

VARIABLES
  sigAlive,     \* [Roots -> BOOLEAN]   root signal constructed and not destroyed
  sigHandler,   \* [Roots -> Ptrs]      cancellation_signal::handler_ of a root
  sigEmitted,   \* [Roots -> Nat]       history: emit() calls made on the root
  heap,         \* [Blocks -> block]    the free store
  stLife,       \* [States -> {"unborn","alive","dead"}]
  stImpl,       \* [States -> Ptrs]     cancellation_state::impl_
  op,           \* the timer wait of the unit test: [st, since]
  count,        \* the unit test's count of operation_aborted completions
  fault         \* "none", or how the process was terminated

vars == <<sigAlive, sigHandler, sigEmitted, heap, stLife, stImpl, op, count,
          fault>>

\* ---------------------------------------------------------------- memory
\* A block.  st/cap are the allocator's view; type, size_, cancelled_ and
\* handler_ are the members of the object stored in it (handler_ and
\* cancelled_ are impl::signal_.handler_ and impl::cancelled_); owner, calls,
\* emitted, since and outer are history fields (outer: whenever the handler
\* was invoked, every forwarding handler around it had already latched).
FreeBlock ==
  [st |-> "free", cap |-> 0, type |-> "none", size_ |-> 0,
   cancelled_ |-> FALSE, handler_ |-> NULL,
   owner |-> "none", calls |-> 0, emitted |-> 0, since |-> 0, outer |-> TRUE]

RawBlock(c) == [FreeBlock EXCEPT !.st = "raw", !.cap = c]

\* The memory the operations work on.
M == [root |-> sigHandler, emitted |-> sigEmitted, heap |-> heap, op |-> op]

\* Slots: the address of a handler_ cell, or the null slot.
NullSlot == <<"null", NULL>>
RootSlot(r) == <<"root", r>>
ChildSlot(p) == <<"blk", p>>

\* *handler_ read through a connected slot
Cell(m, s) == IF s[1] = "root" THEN m.root[s[2]] ELSE m.heap[s[2]].handler_

\* *handler_ = v through a connected slot
SetCell(m, s, v) ==
  IF s[1] = "root" THEN [m EXCEPT !.root[s[2]] = v]
                   ELSE [m EXCEPT !.heap[s[2]].handler_ = v]

\* history: number of emit() calls made so far on the signal behind slot s
Emitted(m, s) == IF s[1] = "root" THEN m.emitted[s[2]] ELSE m.heap[s[2]].emitted

BumpEmitted(m, s) ==
  IF s[1] = "root" THEN [m EXCEPT !.emitted[s[2]] = @ + 1]
                   ELSE [m EXCEPT !.heap[s[2]].emitted = @ + 1]

\* ::operator delete(p); releasing a block that is not allocated leaves the
\* free store marked "double_free"
operator_delete(hp, p) ==
  IF p = NULL THEN hp
  ELSE IF hp[p].st = "free" THEN [hp EXCEPT ![p].st = "double_free"]
  ELSE [hp EXCEPT ![p] = FreeBlock]

operator_new(hp, p, size) == [hp EXCEPT ![p] = RawBlock(size)]

\* ---------------------------------------------------------------- HandlerBox
\* a faulty constructor: records the footprint of H instead of the size of
\* the block it was given
construct_records_footprint(hp, p, H, size, who, since) ==
  [hp EXCEPT ![p] = [@ EXCEPT !.st = "obj", !.type = H, !.size_ = sizeof(H),
                              !.cancelled_ = FALSE, !.handler_ = NULL,
                              !.owner = who, !.calls = 0, !.emitted = 0,
                              !.since = since, !.outer = TRUE]]

\* cancellation_handler<H>(size, args...) constructed in block p
construct(hp, p, H, size, who, since) ==
  [hp EXCEPT ![p] = [@ EXCEPT !.st = "obj", !.type = H, !.size_ = size,
                              !.cancelled_ = FALSE, !.handler_ = NULL,
                              !.owner = who, !.calls = 0, !.emitted = 0,
                              !.since = since, !.outer = TRUE]]

RECURSIVE destroy(_, _)

\* a faulty ~cancellation_signal: disposes of the handler but does not
\* release its block
signal_dtor_keeps_block(hp, c) == IF c # NULL THEN destroy(hp, c) ELSE hp

\* cancellation_signal::~cancellation_signal on the cell value c
signal_dtor(hp, c) ==
  IF c # NULL THEN operator_delete(destroy(hp, c), c) ELSE hp

\* a faulty destroy(): the destructor of H is not run, so what an impl owns
\* is left behind
destroy_skips_dtor(hp, p) == [hp EXCEPT ![p] = RawBlock(hp[p].cap)]

\* cancellation_handler<H>::destroy(): runs ~H (for impl: the destructor of
\* signal_), leaves the block allocated.  The returned pair is (p, size_).
destroy(hp, p) ==
  LET hp1 == IF hp[p].type = "impl" THEN signal_dtor(hp, hp[p].handler_) ELSE hp
  IN  [hp1 EXCEPT ![p] = RawBlock(hp[p].cap)]

\* ---------------------------------------------------------------- Slot
is_connected(s) == s # NullSlot

has_handler(m, s) == s # NullSlot /\ Cell(m, s) # NULL

\* The value of a slot's member handler_: the address of the handler_ cell
\* of its signal, null for an unconnected slot.  The handler_ of a child
\* signal lies inside the block of the impl it is a member of, that of a
\* root signal outside the free store.
handler_addr(s) ==
  CASE s[1] = "null" -> NULL
    [] s[1] = "blk"  -> s[2]
    [] s[1] = "root" -> MaxBlocks + s[2]

\* cancellation_signal::slot() of a root signal
signal_slot(r) == RootSlot(r)

\* a faulty operator==: compares only whether the slots are connected
slot_eq_connected(lhs, rhs) ==
  (handler_addr(lhs) = NULL) = (handler_addr(rhs) = NULL)

\* operator==(const cancellation_slot&, const cancellation_slot&)
slot_eq(lhs, rhs) == handler_addr(lhs) = handler_addr(rhs)

\* operator!=(const cancellation_slot&, const cancellation_slot&)
slot_ne(lhs, rhs) == handler_addr(lhs) # handler_addr(rhs)

\* The ways prepare_memory(size) ends: it returns the pair (first, second),
\* ::operator new throws, or the process is terminated.
Returned(m, first, second) ==
  [m |-> m, first |-> first, second |-> second, threw |-> FALSE, died |-> FALSE]

Threw(m) ==
  [m |-> m, first |-> NULL, second |-> 0, threw |-> TRUE, died |-> FALSE]

Died(m) ==
  [m |-> m, first |-> NULL, second |-> 0, threw |-> FALSE, died |-> TRUE]

\* a faulty prepare_memory: when the old block is too small it allocates the
\* new one and forgets the old handler, which is neither disposed of nor
\* released
prepare_memory_keeps_old(m, s, size, addr) ==
  IF s = NullSlot THEN Died(m) ELSE
  LET old    == Cell(m, s)
      second == IF old # NULL THEN m.heap[old].size_ ELSE 0
  IN  IF size > second
      THEN IF addr = NULL \/ addr = old
           THEN Threw(SetCell(m, s, NULL))
           ELSE Returned(SetCell([m EXCEPT !.heap = operator_new(@, addr, size)],
                                 s, NULL),
                         addr, size)
      ELSE Returned(SetCell([m EXCEPT !.heap = destroy(m.heap, old)], s, NULL),
                    old, second)

\* a faulty prepare_memory: without the assertion, a call through an
\* unconnected slot is reported like an allocation failure
prepare_memory_no_assert(m, s, size, addr) ==
  IF s = NullSlot THEN Threw(m) ELSE
  LET old    == Cell(m, s)
      m1     == IF old # NULL
                THEN SetCell([m EXCEPT !.heap = destroy(m.heap, old)], s, NULL)
                ELSE m
      second == IF old # NULL THEN m.heap[old].size_ ELSE 0
  IN  IF size > second
      THEN LET hp2 == operator_delete(m1.heap, old)
           IN  IF addr = NULL
               THEN Threw([m1 EXCEPT !.heap = hp2])
               ELSE Returned([m1 EXCEPT !.heap = operator_new(hp2, addr, size)],
                             addr, size)
      ELSE Returned(m1, old, second)

\* a faulty prepare_memory: never reuses the retained block
prepare_memory_never_reuses(m, s, size, addr) ==
  IF s = NullSlot THEN Died(m) ELSE
  LET old == Cell(m, s)
      m1  == IF old # NULL
             THEN SetCell([m EXCEPT !.heap = destroy(m.heap, old)], s, NULL)
             ELSE m
      hp2 == operator_delete(m1.heap, old)
  IN  IF addr = NULL
      THEN Threw([m1 EXCEPT !.heap = hp2])
      ELSE Returned([m1 EXCEPT !.heap = operator_new(hp2, addr, size)],
                    addr, size)

\* cancellation_slot::prepare_memory(size); addr is what ::operator new
\* returns if it is called (NULL: it throws std::bad_alloc).  Through an
\* unconnected slot assert(handler_) fails; where assertions are compiled
\* out the next statement reads *handler_ through the null pointer.
prepare_memory(m, s, size, addr) ==
  IF s = NullSlot THEN Died(m) ELSE
  LET old    == Cell(m, s)
      m1     == IF old # NULL
                THEN SetCell([m EXCEPT !.heap = destroy(m.heap, old)], s, NULL)
                ELSE m
      second == IF old # NULL THEN m.heap[old].size_ ELSE 0
  IN  IF size > second
      THEN LET hp2 == operator_delete(m1.heap, old)
           IN  IF addr = NULL
               THEN Threw([m1 EXCEPT !.heap = hp2])
               ELSE Returned([m1 EXCEPT !.heap = operator_new(hp2, addr, size)],
                             addr, size)
      ELSE Returned(m1, old, second)

\* a faulty emplace(): the auto_delete guard is not disarmed, so the block is
\* released although the handler was installed in it
emplace_keeps_guard(m, s, H, who, addr, ctorOk) ==
  LET pm == prepare_memory(m, s, sizeof(H), addr)
  IN  IF pm.died
      THEN [m |-> pm.m, ok |-> FALSE, p |-> NULL, died |-> TRUE]
      ELSE IF pm.threw
      THEN [m |-> pm.m, ok |-> FALSE, p |-> NULL, died |-> FALSE]
      ELSE IF ~ctorOk
      THEN [m |-> [pm.m EXCEPT !.heap = operator_delete(@, pm.first)],
            ok |-> FALSE, p |-> NULL, died |-> FALSE]
      ELSE [m |-> SetCell([pm.m EXCEPT !.heap = operator_delete(@, pm.first)],
                          s, pm.first),
            ok |-> TRUE, p |-> pm.first, died |-> FALSE]

\* a faulty emplace(): without the auto_delete guard, the block is kept when
\* the constructor of H throws
emplace_no_auto_delete(m, s, H, who, addr, ctorOk) ==
  LET pm == prepare_memory(m, s, sizeof(H), addr)
  IN  IF pm.died
      THEN [m |-> pm.m, ok |-> FALSE, p |-> NULL, died |-> TRUE]
      ELSE IF pm.threw
      THEN [m |-> pm.m, ok |-> FALSE, p |-> NULL, died |-> FALSE]
      ELSE IF ~ctorOk
      THEN [m |-> pm.m, ok |-> FALSE, p |-> NULL, died |-> FALSE]
      ELSE [m |-> SetCell([pm.m EXCEPT !.heap =
                             construct(@, pm.first, H, pm.second, who,
                                       Emitted(m, s))],
                          s, pm.first),
            ok |-> TRUE, p |-> pm.first, died |-> FALSE]

\* cancellation_slot::emplace<H>(args...); ctorOk = FALSE: H's constructor
\* throws.  Result: the memory afterwards, whether it returned normally, the
\* block of the installed handler, and whether the process was terminated.
emplace(m, s, H, who, addr, ctorOk) ==
  LET pm == prepare_memory(m, s, sizeof(H), addr)
  IN  IF pm.died
      THEN [m |-> pm.m, ok |-> FALSE, p |-> NULL, died |-> TRUE]
      ELSE IF pm.threw
      THEN [m |-> pm.m, ok |-> FALSE, p |-> NULL, died |-> FALSE]
      ELSE IF ~ctorOk
      THEN [m |-> [pm.m EXCEPT !.heap = operator_delete(@, pm.first)],
            ok |-> FALSE, p |-> NULL, died |-> FALSE]
      ELSE [m |-> SetCell([pm.m EXCEPT !.heap =
                             construct(@, pm.first, H, pm.second, who,
                                       Emitted(m, s))],
                          s, pm.first),
            ok |-> TRUE, p |-> pm.first, died |-> FALSE]

\* a faulty clear(): releases the handler but leaves *handler_ pointing at it
clear_keeps_pointer(m, s) ==
  IF s # NullSlot /\ Cell(m, s) # NULL
  THEN [m EXCEPT !.heap = operator_delete(destroy(m.heap, Cell(m, s)),
                                          Cell(m, s))]
  ELSE m

\* a faulty clear(): resets *handler_ without disposing of the handler
clear_leaks(m, s) ==
  IF s # NullSlot /\ Cell(m, s) # NULL THEN SetCell(m, s, NULL) ELSE m

\* cancellation_slot::clear()
clear(m, s) ==
  IF s # NullSlot /\ Cell(m, s) # NULL
  THEN SetCell([m EXCEPT !.heap = operator_delete(destroy(m.heap, Cell(m, s)),
                                                  Cell(m, s))],
               s, NULL)
  ELSE m

\* what ::operator new may do inside emplace<H> through slot s: throw
\* (NULL), or return the first block that is free once prepare_memory has
\* released the old one (a first-fit allocator)
MayReturn(m, s, H) ==
  LET old == Cell(m, s)
      hp1 == IF old # NULL THEN operator_delete(destroy(m.heap, old), old)
                           ELSE m.heap
      fr  == {p \in Blocks : hp1[p].st = "free"}
  IN  {NULL} \cup {p \in fr : \A q \in fr : p <= q}

\* ---------------------------------------------------------------- Signal
RECURSIVE emit(_, _)

\* a faulty forwarding handler: latches but does not re-emit the child signal
impl_call_no_forward(m, p) == [m EXCEPT !.heap[p].cancelled_ = TRUE]

\* a faulty forwarding handler: re-emits the child signal without latching
impl_call_no_latch(m, p) == emit(m, ChildSlot(p))

\* a faulty forwarding handler: re-emits the child signal, then latches
impl_call_forward_first(m, p) ==
  [emit(m, ChildSlot(p)) EXCEPT !.heap[p].cancelled_ = TRUE]

\* cancellation_state::impl::operator()
impl_call(m, p) ==
  emit([m EXCEPT !.heap[p].cancelled_ = TRUE], ChildSlot(p))

\* The cancellation handler a timer wait installs in the slot bound to its
\* completion handler: it cancels the wait if it is still pending.
op_cancel_call(m) ==
  IF m.op.st = "pending" THEN [m EXCEPT !.op.st = "aborted"] ELSE m

\* history: the forwarding handler in whose child slot handler p is
\* installed, and those around it, have latched (p is being invoked)
LatchedAround(m, p) ==
  \A q \in Blocks :
    (m.heap[q].st = "obj" /\ m.heap[q].type = "impl"
       /\ m.heap[q].handler_ = p)
      => m.heap[q].cancelled_ /\ m.heap[q].outer

\* The slot a re-entering handler holds a copy of: that of the root signal,
\* which is its own signal or an ancestor of it.
Captured == RootSlot(CHOOSE r \in Roots : TRUE)

\* A user handler whose body calls clear() on the slot it holds.
h_clear_call(m) == clear(m, Captured)

\* A user handler whose body calls emplace<h1>() on the slot it holds; the
\* handler installed there at that time is at least as large as h1, so the
\* block is reused and ::operator new is not called.
h_swap_call(m) == emplace(m, Captured, "h1", "none", NULL, TRUE).m

\* cancellation_handler<H>::call(): handler_()
call(m, p) ==
  LET m1 == [m EXCEPT !.heap[p].calls = @ + 1,
                      !.heap[p].outer = @ /\ LatchedAround(m, p)]
  IN  CASE m.heap[p].type = "impl"      -> impl_call(m1, p)
        [] m.heap[p].type = "op_cancel" -> op_cancel_call(m1)
        [] m.heap[p].type = "h_clear"   -> h_clear_call(m1)
        [] m.heap[p].type = "h_swap"    -> h_swap_call(m1)
        [] OTHER                        -> m1

\* a faulty emit(): tests the handler but never calls it
emit_no_call(m, s) == BumpEmitted(m, s)

\* cancellation_signal::emit() on the signal behind slot s
emit(m, s) ==
  LET m1 == BumpEmitted(m, s)
  IN  IF Cell(m, s) # NULL THEN call(m1, Cell(m, s)) ELSE m1

\* ---------------------------------------------------------------- State
\* cancellation_state::slot()
state_slot(s) == IF stImpl[s] # NULL THEN ChildSlot(stImpl[s]) ELSE NullSlot

\* impl_ points at a live impl object
ImplLive(hp, p) == p # NULL /\ hp[p].st = "obj" /\ hp[p].type = "impl"

\* cancellation_state::cancelled(): the values a call with impl_ = p can
\* return on heap hp (the call changes nothing).  Reading
\* through an impl_ whose block was released or holds another object is
\* undefined: either value can come back.
\* a faulty cancelled(): reads through impl_ without testing it
cancelled_no_null_check(hp, p) ==
  IF ImplLive(hp, p) THEN {hp[p].cancelled_} ELSE BOOLEAN

cancelled_at(hp, p) ==
  IF p = NULL THEN {FALSE}
  ELSE IF ImplLive(hp, p) THEN {hp[p].cancelled_}
  ELSE BOOLEAN

cancelled(s) == cancelled_at(heap, stImpl[s])

\* The slots a caller may use: the null slot and the slot of every signal
\* that is alive (cancellation_signal::slot(): "The signal object must
\* remain valid for as long the slot may be used").
LiveSlots ==
  {RootSlot(r) : r \in {x \in Roots : sigAlive[x]}}
    \cup {ChildSlot(p) : p \in {x \in Blocks : ImplLive(heap, x)}}

\* ---------------------------------------------------------------- actions
Install(m) ==
  /\ sigHandler' = m.root
  /\ sigEmitted' = m.emitted
  /\ heap' = m.heap
  /\ op' = m.op

Init ==
  /\ sigAlive = [r \in Roots |-> TRUE]
  /\ sigHandler = [r \in Roots |-> NULL]
  /\ sigEmitted = [r \in Roots |-> 0]
  /\ heap = [p \in Blocks |-> FreeBlock]
  /\ stLife = [s \in States |-> "unborn"]
  /\ stImpl = [s \in States |-> NULL]
  /\ op = [st |-> "idle", since |-> 0]
  /\ count = 0
  /\ fault = "none"

\* sig.emit()
Emit(r) ==
  /\ sigAlive[r]
  /\ sigEmitted[r] < MaxEmits
  /\ Install(emit(M, RootSlot(r)))
  /\ UNCHANGED <<sigAlive, stLife, stImpl, count, fault>>

\* slot.emplace<H>(...)
Emplace(s, H, ctorOk) ==
  /\ s \in LiveSlots
  /\ \E addr \in MayReturn(M, s, H) :
       LET e == emplace(M, s, H, "none", addr, ctorOk)
       IN  /\ Install(e.m)
  /\ UNCHANGED <<sigAlive, stLife, stImpl, count, fault>>

\* slot.clear()
Clear(s) ==
  /\ s \in LiveSlots \cup {NullSlot}
  /\ Install(clear(M, s))
  /\ UNCHANGED <<sigAlive, stLife, stImpl, count, fault>>

\* cancellation_state st(slot); the State objects are named in the order
\* of their construction
NewState(st, s) ==
  /\ stLife[st] = "unborn"
  /\ st = "s2" => stLife["s1"] # "unborn"
  /\ s \in LiveSlots \cup {NullSlot}
  /\ IF is_connected(s)
     THEN \E addr \in MayReturn(M, s, "impl") :
            LET e == emplace(M, s, "impl", st, addr, TRUE)
            IN  /\ Install(e.m)
                /\ stLife' = IF e.ok THEN [stLife EXCEPT ![st] = "alive"] ELSE stLife
                /\ stImpl' = IF e.ok THEN [stImpl EXCEPT ![st] = e.p] ELSE stImpl
     ELSE /\ stLife' = [stLife EXCEPT ![st] = "alive"]
          /\ stImpl' = [stImpl EXCEPT ![st] = NULL]
          /\ UNCHANGED <<sigHandler, sigEmitted, heap, op>>
  /\ UNCHANGED <<sigAlive, count, fault>>

\* the cancellation_state object goes out of scope (it has no destructor)
DestroyState(st) ==
  /\ stLife[st] = "alive"
  /\ stLife' = [stLife EXCEPT ![st] = "dead"]
  /\ stImpl' = [stImpl EXCEPT ![st] = NULL]
  /\ UNCHANGED <<sigAlive, sigHandler, sigEmitted, heap, op, count, fault>>

\* cancellation_signal::~cancellation_signal of a root signal
DestroySignal(r) ==
  /\ sigAlive[r]
  /\ sigAlive' = [sigAlive EXCEPT ![r] = FALSE]
  /\ heap' = signal_dtor(heap, sigHandler[r])
  /\ sigHandler' = [sigHandler EXCEPT ![r] = NULL]
  /\ UNCHANGED <<sigEmitted, stLife, stImpl, op, count, fault>>

\* t.async_wait(bind_cancellation_slot(sig.slot(), handler)): the wait
\* installs its cancellation handler in the bound slot and becomes pending
AsyncWait(r) ==
  /\ op.st = "idle"
  /\ sigAlive[r]
  /\ \E addr \in MayReturn(M, RootSlot(r), "op_cancel") :
       LET e == emplace(M, RootSlot(r), "op_cancel", "none", addr, TRUE)
       IN  /\ Install(IF e.ok
                      THEN [e.m EXCEPT !.op = [st |-> "pending",
                                               since |-> sigEmitted[r]]]
                      ELSE e.m)
  /\ UNCHANGED <<sigAlive, stLife, stImpl, count, fault>>

\* the timer expires before it is cancelled
TimerExpire ==
  /\ op.st = "pending"
  /\ op' = [op EXCEPT !.st = "expired"]
  /\ UNCHANGED <<sigAlive, sigHandler, sigEmitted, heap, stLife, stImpl, count,
                 fault>>

\* ioc.run(): the completion handler of the finished wait is invoked;
\* increment_on_cancel counts the operation_aborted outcome
IoRun ==
  /\ op.st \in {"aborted", "expired"}
  /\ count' = IF op.st = "aborted" THEN count + 1 ELSE count
  /\ op' = [op EXCEPT !.st = "done"]
  /\ UNCHANGED <<sigAlive, sigHandler, sigEmitted, heap, stLife, stImpl, fault>>

\* slot.emplace<H>(...) through an unconnected slot: the process ends, by
\* the failed assertion or, where assertions are compiled out, by the access
\* through the null handler_
EmplaceUnconnected(H, ctorOk, f) ==
  /\ fault = "none"
  /\ emplace(M, NullSlot, H, "none", NULL, ctorOk).died
  /\ fault' = f
  /\ UNCHANGED <<sigAlive, sigHandler, sigEmitted, heap, stLife, stImpl, op,
                 count>>

Next ==
  \/ \E r \in Roots : Emit(r)
  \/ \E s \in LiveSlots, H \in Handlers, ctorOk \in BOOLEAN :
       Emplace(s, H, ctorOk)
  \/ \E s \in LiveSlots \cup {NullSlot} : Clear(s)
  \/ \E st \in States, s \in LiveSlots \cup {NullSlot} : NewState(st, s)
  \/ \E st \in States : DestroyState(st)
  \/ \E r \in Roots : DestroySignal(r)
  \/ \E r \in Roots : AsyncWait(r)
  \/ TimerExpire
  \/ IoRun

Spec == Init /\ [][Next]_vars

\* a client that also calls emplace through unconnected slots; nothing runs
\* once the process has been terminated
MisuseNext ==
  \/ fault = "none" /\ Next
  \/ \E H \in Handlers, ctorOk \in BOOLEAN, f \in Faults :
       EmplaceUnconnected(H, ctorOk, f)

MisuseSpec == Init /\ [][MisuseNext]_vars

\* a client that also installs handlers which, when invoked, clear or
\* re-emplace the slot of the signal being emitted
ReentrantNext ==
  \/ Next
  \/ \E s \in LiveSlots, H \in Reentering : Emplace(s, H, TRUE)

ReentrantSpec == Init /\ [][ReentrantNext]_vars

\* ioc.run() does not return while a completion is queued
FairSpec == Spec /\ WF_vars(IoRun)

\* ---------------------------------------------------------------- claims
UserInstalled(s) ==
  /\ Cell(M, s) # NULL
  /\ heap[Cell(M, s)].type \in Handlers

\* C1: after emplace<H>(h) through a connected slot returns normally,
\* has_handler() is true and the installed object is h, not yet invoked; and
\* while h stays installed every emit() on its signal invokes h exactly once
\* and no other handler: after k emits h has been invoked exactly k times.
C1_EmplaceThenEmit ==
  /\ \A s \in LiveSlots, H \in Handlers :
       \A addr \in MayReturn(M, s, H) :
         LET e == emplace(M, s, H, "none", addr, TRUE)
         IN  e.ok => /\ has_handler(e.m, s)
                     /\ e.m.heap[Cell(e.m, s)].st = "obj"
                     /\ e.m.heap[Cell(e.m, s)].type = H
                     /\ e.m.heap[Cell(e.m, s)].calls = 0
  /\ \A s \in LiveSlots :
       UserInstalled(s) =>
         LET p  == Cell(M, s)
             m2 == emit(M, s)
         IN  /\ heap[p].calls = Emitted(M, s) - heap[p].since
             /\ m2.heap[p].calls = heap[p].calls + 1
             /\ \A q \in Blocks \ {p} : m2.heap[q].calls = heap[q].calls

\* a handler installed in some slot has been invoked by two emits
C1_Witness ==
  \E s \in LiveSlots :
    /\ UserInstalled(s)
    /\ heap[Cell(M, s)].calls = 2
    /\ Emitted(M, s) - heap[Cell(M, s)].since = 2

\* the wait is pending and its cancellation handler is the one installed in
\* the slot of root signal r
OpBound(r) ==
  /\ op.st = "pending"
  /\ sigAlive[r]
  /\ sigHandler[r] # NULL
  /\ heap[sigHandler[r]].type = "op_cancel"

\* C2: a pending wait whose completion handler is bound to a signal's slot
\* is never completed with operation_aborted while emit() has not been
\* called on the signal since the wait started; an emit() while it is bound
\* cancels it, and the completion handler is then eventually invoked with
\* operation_aborted, once (count = 1, never more).
C2_AbortedOnceAfterEmit ==
  /\ [](\A r \in Roots : sigEmitted[r] = op.since => count = 0)
  /\ [](count <= 1)
  /\ [][\A r \in Roots :
          OpBound(r) /\ sigEmitted'[r] = sigEmitted[r] + 1
            => op'.st = "aborted" /\ count' = 0]_vars
  /\ (op.st = "aborted") ~> (op.st = "done" /\ count = 1)

\* the wait was cancelled by an emit and completed with operation_aborted
C2_Witness ==
  /\ op.st = "done"
  /\ count = 1
  /\ \E r \in Roots : sigEmitted[r] = op.since + 1

\* the handler objects a handler block owns, itself included: an impl owns
\* the handler installed in its child signal
RECURSIVE Subtree(_, _)
Subtree(hp, p) ==
  IF p = NULL THEN {}
  ELSE IF hp[p].type = "impl" THEN {p} \cup Subtree(hp, hp[p].handler_)
  ELSE {p}

\* the blocks that hold a handler object
Objects(hp) == {p \in Blocks : hp[p].st = "obj"}

\* the live handler_ cells that point at block p
Refs(m, p) ==
  {RootSlot(r) : r \in {x \in Roots : sigAlive[x] /\ m.root[x] = p}}
    \cup {ChildSlot(q) : q \in {x \in Blocks : ImplLive(m.heap, x)
                                               /\ m.heap[x].handler_ = p}}

\* C3: installing h2 through a slot while h1 is installed disposes of h1
\* (and of what h1 owns) before h2 is constructed; afterwards the signal
\* references h2 alone, h1 no longer exists, and a later emit() invokes h2
\* and not h1.  In every state each handler object is referenced by exactly
\* one signal and released blocks hold nothing.
C3_ReplaceDisposesFirst ==
  /\ \A p \in Blocks :
       IF heap[p].st = "obj" THEN Cardinality(Refs(M, p)) = 1
                             ELSE heap[p] = FreeBlock /\ Refs(M, p) = {}
  /\ \A s \in LiveSlots, H \in Handlers \cup {"impl"} :
       has_handler(M, s) =>
         \A addr \in MayReturn(M, s, H) :
           LET old  == Cell(M, s)
               gone == Subtree(heap, old)
               pm   == prepare_memory(M, s, sizeof(H), addr)
               e    == emplace(M, s, H, "none", addr, TRUE)
               m2   == emit(e.m, s)
           IN  /\ Cell(pm.m, s) = NULL
               /\ Objects(pm.m.heap) = Objects(heap) \ gone
               /\ e.ok =>
                    /\ Cell(e.m, s) = e.p
                    /\ Objects(e.m.heap) = (Objects(heap) \ gone) \cup {e.p}
                    /\ e.m.heap[e.p].type = H
                    /\ e.m.heap[e.p].calls = 0
                    /\ e.m.heap[e.p].handler_ = NULL
                    /\ Refs(e.m, e.p) = {s}
                    /\ m2.heap[e.p].calls = 1
                    /\ \A q \in gone \ {e.p} : m2.heap[q] = FreeBlock

\* a handler that replaced a larger one in the same block was invoked by a
\* later emit
C3_Witness ==
  \E s \in LiveSlots :
    /\ UserInstalled(s)
    /\ heap[Cell(M, s)].cap > sizeof(heap[Cell(M, s)].type)
    /\ heap[Cell(M, s)].calls = 1

\* the forwarding handlers from root signal r inwards, outermost first
RECURSIVE ChainFrom(_, _)
ChainFrom(hp, p) ==
  IF p # NULL /\ hp[p].st = "obj" /\ hp[p].type = "impl"
  THEN <<p>> \o ChainFrom(hp, hp[p].handler_)
  ELSE <<>>

Chain(r) == ChainFrom(heap, sigHandler[r])

\* the handler installed in the innermost slot of the chain (NULL: none)
Innermost(r) ==
  IF Chain(r) = <<>> THEN sigHandler[r]
  ELSE heap[Chain(r)[Len(Chain(r))]].handler_

\* C4: for a chain of N >= 1 States, each built from the slot of the one
\* before and the first from root.slot(), one emit() on the root signal
\* makes cancelled() true for every State of the chain and invokes the
\* handler installed in the innermost slot, if any, exactly once.
C4_ChainPropagates ==
  \A r \in Roots :
    (sigAlive[r] /\ Chain(r) # <<>>) =>
      LET m2 == emit(M, RootSlot(r))
          c  == Chain(r)
      IN  /\ \A i \in 1..Len(c) :
               /\ cancelled_at(m2.heap, c[i]) = {TRUE}
               /\ m2.heap[c[i]].calls = heap[c[i]].calls + 1
               /\ m2.heap[c[i]].emitted = heap[c[i]].emitted + 1
               \* what earlier emits did to the chain
               /\ heap[c[i]].calls > 0 => heap[c[i]].cancelled_
               /\ heap[c[i]].emitted = heap[c[i]].calls
          /\ Innermost(r) # NULL =>
               /\ m2.heap[Innermost(r)].calls = heap[Innermost(r)].calls + 1
               /\ heap[Innermost(r)].calls =
                    heap[c[Len(c)]].emitted - heap[Innermost(r)].since
          /\ \A q \in Blocks \ Subtree(heap, sigHandler[r]) :
               m2.heap[q] = heap[q]

\* two chained States, both cancelled by one emit that also invoked the
\* handler installed in the innermost slot
C4_Witness ==
  \E r \in Roots :
    /\ Len(Chain(r)) = 2
    /\ \A st \in States : stLife[st] = "alive" /\ stImpl[st] \in Blocks
                             /\ heap[stImpl[st]].owner = st
                             /\ cancelled(st) = {TRUE}
    /\ sigEmitted[r] = 1
    /\ Innermost(r) # NULL
    /\ heap[Innermost(r)].type \in Handlers
    /\ heap[Innermost(r)].calls = 1

\* the State object st still refers to the forwarding handler it installed
OwnImpl(st) ==
  /\ stLife[st] = "alive"
  /\ ImplLive(heap, stImpl[st])
  /\ heap[stImpl[st]].owner = st

\* C5: for a State s built from a connected parent slot, with k the number
\* of emit() calls on the parent's signal since: s.cancelled() is false while
\* k = 0 and true once k >= 1, and the child signal has been emitted exactly
\* k times (once after one emit, a second time after the second).
C5_LatchAndForwardPerEmit ==
  \A st \in States :
    OwnImpl(st) =>
      \A ps \in Refs(M, stImpl[st]) :
        LET b == stImpl[st]
            k == Emitted(M, ps) - heap[b].since
        IN  /\ cancelled(st) = {k >= 1}
            /\ Emitted(M, state_slot(st)) = k
            /\ heap[b].calls = k

\* a State whose parent signal was emitted twice after its construction
C5_Witness ==
  \E st \in States :
    /\ OwnImpl(st)
    /\ cancelled(st) = {TRUE}
    /\ Emitted(M, state_slot(st)) = 2

\* C6: the cancelled latch of a State is monotonic: once cancelled() returns
\* true it returns true on every later call while the State lives, whatever
\* emit, emplace and clear operations are made on the parent and child slots
\* and whatever other State is built from the parent slot.
C6_LatchMonotonic ==
  [][\A st \in States :
       (stLife[st] = "alive" /\ stLife'[st] = "alive"
          /\ cancelled_at(heap, stImpl[st]) = {TRUE})
         => cancelled_at(heap', stImpl'[st]) = {TRUE}]_vars

\* C7 (as claimed): a State owns its child signal for exactly its own
\* lifetime: while the State exists the forwarding handler holding the child
\* signal is alive, and once the State is destroyed no forwarding handler of
\* it (hence no child signal, and no handler in it) is left.
C7_StateOwnsChild ==
  /\ \A st \in States :
       (stLife[st] = "alive" /\ stImpl[st] # NULL) => OwnImpl(st)
  /\ \A p \in Blocks :
       ImplLive(heap, p) => stLife[heap[p].owner] = "alive"

\* C7 (amended): the child signal belongs to the forwarding handler installed
\* in the parent slot, not to the State object.  It is alive, with any
\* handler installed in it, in every state in which that forwarding handler
\* is installed; clearing the parent slot destroys both; the end of the State
\* object destroys nothing, and an emit() on the parent signal still reaches
\* the handler installed in the child slot, whether the State lives or not.
C7_ForwardingHandlerOwnsChild ==
  /\ [](\A p \in Blocks :
          ImplLive(heap, p) =>
            LET q == heap[p].handler_
            IN  /\ Cardinality(Refs(M, p)) = 1
                /\ q # NULL => heap[q].st = "obj" /\ Refs(M, q) = {ChildSlot(p)}
                /\ \A ps \in Refs(M, p) :
                     /\ q # NULL =>
                          emit(M, ps).heap[q].calls = heap[q].calls + 1
                     /\ clear(M, ps).heap[p] = FreeBlock
                     /\ q # NULL => clear(M, ps).heap[q] = FreeBlock)
  /\ [][\A st \in States :
          (stLife[st] = "alive" /\ stLife'[st] = "dead")
            => UNCHANGED <<sigAlive, sigHandler, sigEmitted, heap, op, count>>]_vars

\* the State object is gone, its forwarding handler is still installed with
\* a handler in the child slot that emits on the parent signal have invoked
C7_Witness ==
  \E p \in Blocks :
    /\ ImplLive(heap, p)
    /\ stLife[heap[p].owner] = "dead"
    /\ heap[p].handler_ # NULL
    /\ heap[heap[p].handler_].type \in Handlers
    /\ heap[heap[p].handler_].calls = 2

\* C8: a State built from an unconnected slot installs nothing, its slot()
\* is unconnected and its cancelled() is false in every state, also after an
\* emit() on any signal.
C8_UnconnectedStateInert ==
  /\ [](\A st \in States :
          (stLife[st] = "alive" /\ stImpl[st] = NULL) =>
            /\ ~is_connected(state_slot(st))
            /\ cancelled(st) = {FALSE}
            /\ \A s \in LiveSlots :
                 cancelled_at(emit(M, s).heap, stImpl[st]) = {FALSE})
  /\ [][\A st \in States :
          (stLife[st] = "unborn" /\ stLife'[st] = "alive" /\ stImpl'[st] = NULL)
            => UNCHANGED <<sigAlive, sigHandler, sigEmitted, heap, op, count>>]_vars

\* a State built from an unconnected slot is not cancelled although the
\* signal was emitted and the other State, built from its slot, is cancelled
C8_Witness ==
  \E st \in States, st2 \in States :
    /\ stLife[st] = "alive" /\ stImpl[st] = NULL
    /\ OwnImpl(st2) /\ cancelled(st2) = {TRUE}
    /\ \E r \in Roots : sigEmitted[r] = 2

\* memory m2 differs from m1 at most in the history of emit() calls
SameButEmitted(m2, m1) ==
  /\ m2.root = m1.root
  /\ m2.op = m1.op
  /\ \A p \in Blocks :
       [m2.heap[p] EXCEPT !.emitted = 0] = [m1.heap[p] EXCEPT !.emitted = 0]

\* C9: emit() on a signal with no handler installed, be it fresh or just
\* cleared, invokes no handler, raises nothing and changes no part of the
\* state.
C9_EmitEmptyNoOp ==
  /\ [](\A s \in LiveSlots :
          /\ ~has_handler(M, s) => SameButEmitted(emit(M, s), M)
          /\ SameButEmitted(emit(clear(M, s), s), clear(M, s)))
  /\ [][\A r \in Roots :
          (sigAlive[r] /\ sigHandler[r] = NULL
             /\ sigEmitted'[r] = sigEmitted[r] + 1)
            => UNCHANGED <<sigAlive, sigHandler, heap, stLife, stImpl, op,
                           count>>]_vars

\* a live signal without handler on which emit() was called, nothing being
\* allocated
C9_Witness ==
  \E r \in Roots :
    /\ sigAlive[r]
    /\ sigHandler[r] = NULL
    /\ sigEmitted[r] = 2
    /\ \A p \in Blocks : heap[p] = FreeBlock

\* C10: clear() on a connected, occupied slot disposes of the handler (and
\* of what it owns), releases its block and leaves the slot connected and
\* empty, touching nothing else; clear() on an empty or unconnected slot
\* changes nothing; hence clear(); clear() equals clear().
C10_ClearIdempotent ==
  \A s \in LiveSlots \cup {NullSlot} :
    LET m1   == clear(M, s)
        gone == IF has_handler(M, s) THEN Subtree(heap, Cell(M, s)) ELSE {}
    IN  /\ has_handler(M, s) =>
             /\ is_connected(s)
             /\ ~has_handler(m1, s)
             /\ \A q \in gone : m1.heap[q] = FreeBlock
             /\ \A q \in Blocks \ gone :
                  m1.heap[q] = IF s = ChildSlot(q)
                               THEN [heap[q] EXCEPT !.handler_ = NULL]
                               ELSE heap[q]
             /\ \A r \in Roots : s # RootSlot(r) => m1.root[r] = sigHandler[r]
             /\ m1.op = op /\ m1.emitted = sigEmitted
        /\ ~has_handler(M, s) => m1 = M
        /\ clear(m1, s) = m1

\* a State whose forwarding handler was removed from the parent slot, which
\* is connected and empty, all blocks released
C10_Witness ==
  \E st \in States, r \in Roots :
    /\ stLife[st] = "alive"
    /\ stImpl[st] # NULL
    /\ sigAlive[r]
    /\ ~has_handler(M, RootSlot(r))
    /\ \A p \in Blocks : heap[p] = FreeBlock

\* C11 (as claimed): emplace and clear through an unconnected slot are both
\* misuse that fails fast: neither call returns normally, each terminates
\* the process.
C11_MisuseFailsFast ==
  fault = "none" =>
    /\ \A H \in Handlers, ctorOk \in BOOLEAN :
         emplace(M, NullSlot, H, "none", NULL, ctorOk).died
    /\ ~ENABLED Clear(NullSlot)

\* C11 (amended): emplace through an unconnected slot fails fast: the
\* assertion in prepare_memory terminates the process, nothing is installed,
\* allocated or released, and nothing runs afterwards.  clear() through an
\* unconnected slot is not treated as misuse: it returns normally and
\* changes nothing.
C11_EmplaceAssertsClearIgnores ==
  /\ [](fault = "none" =>
          /\ \A H \in Handlers, addr \in Ptrs, ctorOk \in BOOLEAN :
               LET e == emplace(M, NullSlot, H, "none", addr, ctorOk)
               IN  e.died /\ ~e.ok /\ e.m = M
          /\ \A s \in LiveSlots, H \in Handlers, ctorOk \in BOOLEAN :
               \A addr \in MayReturn(M, s, H) :
                 ~emplace(M, s, H, "none", addr, ctorOk).died
          /\ clear(M, NullSlot) = M
          /\ ENABLED Clear(NullSlot))
  /\ [][/\ fault # "none" => UNCHANGED vars
        /\ fault' # fault =>
              UNCHANGED <<sigAlive, sigHandler, sigEmitted, heap, stLife,
                          stImpl, op, count>>]_vars

\* the process was terminated by an emplace through the unconnected slot of
\* a State that was built from an unconnected slot
C11_Witness ==
  /\ fault \in Faults
  /\ \E st \in States :
       stLife[st] = "alive" /\ stImpl[st] = NULL /\ state_slot(st) = NullSlot

\* C12: emplace through a connected slot, empty or occupied, either installs
\* the new handler completely or, when ::operator new or the constructor of
\* the handler throws, leaves the slot connected and empty, the previous
\* handler (and what it owned) disposed of and its block released, and no
\* half-constructed handler behind.  It fails only for one of those two
\* reasons.  In both outcomes no signal references a released block.
C12_EmplaceAtomic ==
  \A s \in LiveSlots, H \in Handlers \cup {"impl"}, ctorOk \in BOOLEAN :
    \A addr \in MayReturn(M, s, H) :
      LET old    == Cell(M, s)
          gone   == Subtree(heap, old)
          second == IF old # NULL THEN heap[old].size_ ELSE 0
          e      == emplace(M, s, H, "none", addr, ctorOk)
      IN  /\ ~e.died
          /\ e.ok <=> (ctorOk /\ (sizeof(H) > second => addr # NULL))
          /\ IF e.ok
             THEN /\ Cell(e.m, s) = e.p
                  /\ e.m.heap[e.p].st = "obj"
                  /\ e.m.heap[e.p].type = H
                  /\ Objects(e.m.heap) = (Objects(heap) \ gone) \cup {e.p}
             ELSE /\ is_connected(s)
                  /\ ~has_handler(e.m, s)
                  /\ Objects(e.m.heap) = Objects(heap) \ gone
                  /\ \A q \in gone : e.m.heap[q] = FreeBlock
          /\ \A q \in Blocks :
               e.m.heap[q].st # "obj" =>
                 e.m.heap[q] = FreeBlock /\ Refs(e.m, q) = {}

\* the signal's slot is connected and empty, the forwarding handler of the
\* first State was disposed of and the second State was not constructed:
\* the state a failed construction of the second State leaves
C12_Witness ==
  \E r \in Roots :
    /\ sigAlive[r]
    /\ is_connected(RootSlot(r))
    /\ ~has_handler(M, RootSlot(r))
    /\ sigEmitted[r] = 1
    /\ stLife["s1"] = "alive" /\ stImpl["s1"] # NULL
    /\ ~ImplLive(heap, stImpl["s1"])
    /\ stLife["s2"] = "unborn"
    /\ \A p \in Blocks : heap[p] = FreeBlock

\* C13: two slots are equal iff they refer to the same handler_ cell: slots
\* of the same signal are equal, slots of different signals (root or child)
\* are not, two unconnected slots are equal, a connected slot never equals
\* an unconnected one, and whether a handler is installed plays no part;
\* operator!= is the negation.
C13_SlotEquality ==
  /\ slot_eq(NullSlot, NullSlot)
  /\ \A a \in LiveSlots \cup {NullSlot}, b \in LiveSlots \cup {NullSlot} :
       /\ slot_eq(a, b) <=> a = b
       /\ slot_ne(a, b) <=> ~slot_eq(a, b)
       /\ is_connected(a) # is_connected(b) => ~slot_eq(a, b)
       /\ (a = b /\ is_connected(a)) =>
            /\ slot_eq(a, b)
            /\ has_handler(M, a) => ~has_handler(clear(M, a), b)
       /\ (a # b /\ has_handler(M, a) = has_handler(M, b)) => slot_ne(a, b)
  /\ \A r \in Roots :
       sigAlive[r] =>
         /\ slot_eq(signal_slot(r), signal_slot(r))
         /\ ~slot_eq(signal_slot(r), NullSlot)
         /\ \A st \in States :
              stLife[st] = "alive" =>
                /\ slot_eq(state_slot(st), state_slot(st))
                /\ ~slot_eq(state_slot(st), signal_slot(r))
                /\ stImpl[st] = NULL <=> slot_eq(state_slot(st), NullSlot)
  /\ \A st \in States, st2 \in States :
       (OwnImpl(st) /\ OwnImpl(st2)) =>
         (slot_eq(state_slot(st), state_slot(st2)) <=> st = st2)

\* three live signals, the root with a handler installed, the innermost
\* child without: the slots of the two States differ from each other and
\* from the root's
C13_Witness ==
  \E r \in Roots :
    /\ sigAlive[r]
    /\ Len(Chain(r)) = 2
    /\ Innermost(r) = NULL
    /\ OwnImpl("s1") /\ OwnImpl("s2")
    /\ slot_ne(state_slot("s1"), state_slot("s2"))
    /\ slot_ne(state_slot("s1"), signal_slot(r))
    /\ has_handler(M, signal_slot(r))
    /\ ~has_handler(M, state_slot("s2"))

\* C14: destroying a signal that has a handler installed disposes of the
\* handler and of every handler down the chain of a forwarding handler,
\* releases their blocks and touches nothing else; no handler is invoked:
\* a wait whose cancellation handler is installed is not cancelled, no
\* State is latched and no emit() is counted.
C14_DestroyReleasesCallsNothing ==
  /\ [](\A r \in Roots :
          (sigAlive[r] /\ sigHandler[r] # NULL) =>
            LET hp2  == signal_dtor(heap, sigHandler[r])
                gone == Subtree(heap, sigHandler[r])
            IN  /\ sigHandler[r] \in gone
                /\ \A q \in gone : hp2[q] = FreeBlock
                /\ \A q \in Blocks \ gone : hp2[q] = heap[q])
  /\ [][\A r \in Roots :
          (sigAlive[r] /\ ~sigAlive'[r]) =>
            /\ heap' = signal_dtor(heap, sigHandler[r])
            /\ \A q \in Blocks :
                 /\ heap'[q].calls <= heap[q].calls
                 /\ heap'[q].emitted <= heap[q].emitted
                 /\ heap'[q].cancelled_ => heap[q].cancelled_
            /\ UNCHANGED <<sigEmitted, stLife, stImpl, op, count, fault>>]_vars

\* the signal was destroyed after two States had been chained on it and
\* before any emit: every block is released, nothing was counted as emitted
C14_Witness ==
  \E r \in Roots :
    /\ ~sigAlive[r]
    /\ sigEmitted[r] = 0
    /\ \A st \in States : stLife[st] = "alive" /\ stImpl[st] # NULL
    /\ stImpl["s1"] # stImpl["s2"]
    /\ \A p \in Blocks : heap[p] = FreeBlock

\* the blocks ::operator new has handed out and ::operator delete has not
\* taken back
Live(hp) == {p \in Blocks : hp[p].st # "free"}

\* the total size of the live blocks among 1..n
RECURSIVE SumCap(_, _)
SumCap(hp, n) == IF n = 0 THEN 0 ELSE hp[n].cap + SumCap(hp, n - 1)

\* C15 (as claimed): when emplace replaces an installed handler and the new
\* handler fits the recorded size of the retained block, no block is
\* allocated and none is released; when it does not fit, the retained block
\* is released and one block of exactly the required size is allocated, the
\* other blocks staying as they are.  Replacing by a handler that fits never
\* increases the number or total size of live blocks.
C15_ReuseReleasesNothing ==
  \A s \in LiveSlots, H \in Handlers \cup {"impl"} :
    has_handler(M, s) =>
      \A addr \in MayReturn(M, s, H) :
        LET old == Cell(M, s)
            e   == emplace(M, s, H, "none", addr, TRUE)
        IN  e.ok =>
              IF sizeof(H) <= heap[old].size_
              THEN /\ e.p = old
                   /\ Live(e.m.heap) = Live(heap)
                   /\ \A q \in Blocks : e.m.heap[q].cap = heap[q].cap
                   /\ SumCap(e.m.heap, MaxBlocks) <= SumCap(heap, MaxBlocks)
              ELSE /\ e.m.heap[e.p].cap = sizeof(H)
                   /\ Live(e.m.heap) = (Live(heap) \ {old}) \cup {e.p}
                   /\ \A q \in Blocks \ {old, e.p} :
                        e.m.heap[q].cap = heap[q].cap

\* C15 (amended): when the new handler fits the recorded size of the
\* retained block, that block is reused: it is neither released nor is any
\* block allocated, and its size stays; when it does not fit, the retained
\* block is released and, if ::operator new succeeds, one block of exactly
\* the required size is allocated.  In both cases the blocks of the handlers
\* the replaced handler owned (those down the chain of a replaced forwarding
\* handler) are released as well, and no other block changes.  Replacing by
\* a handler that fits never increases the number or total size of live
\* blocks.
C15_ReuseOnReplacement ==
  \A s \in LiveSlots, H \in Handlers \cup {"impl"} :
    has_handler(M, s) =>
      \A addr \in MayReturn(M, s, H) :
        LET old   == Cell(M, s)
            owned == Subtree(heap, old) \ {old}
            e     == emplace(M, s, H, "none", addr, TRUE)
        IN  IF sizeof(H) <= heap[old].size_
            THEN /\ e.ok
                 /\ e.p = old
                 /\ Live(e.m.heap) = Live(heap) \ owned
                 /\ \A q \in Blocks \ owned : e.m.heap[q].cap = heap[q].cap
                 /\ Cardinality(Live(e.m.heap)) <= Cardinality(Live(heap))
                 /\ SumCap(e.m.heap, MaxBlocks) <= SumCap(heap, MaxBlocks)
            ELSE /\ e.ok <=> addr # NULL
                 /\ Live(e.m.heap) =
                      (Live(heap) \ (owned \cup {old}))
                        \cup (IF e.ok THEN {e.p} ELSE {})
                 /\ e.ok => e.m.heap[e.p].cap = sizeof(H)
                 /\ \A q \in Blocks \ (owned \cup {old, e.p}) :
                      e.m.heap[q].cap = heap[q].cap

\* the block of a State's forwarding handler now holds a smaller user
\* handler that replaced it in place, and the handler that was installed in
\* the State's child slot is gone with its block
C15_Witness ==
  \E st \in States, r \in Roots :
    /\ stLife[st] = "alive"
    /\ stImpl[st] # NULL
    /\ sigHandler[r] = stImpl[st]
    /\ heap[stImpl[st]].type = "h1"
    /\ heap[stImpl[st]].cap = sizeof("impl")
    /\ Live(heap) = {stImpl[st]}
    /\ stLife["s2"] = "alive" /\ stImpl["s2"] \notin {NULL, stImpl[st]}

\* C16: a forwarding handler latches before it forwards: whenever a handler
\* installed in a child slot is invoked through an emit() on an ancestor
\* signal, the State whose child slot it is and every State around it
\* already report cancelled; the latches are set outermost first.
C16_LatchBeforeForward ==
  /\ \A p \in Blocks : heap[p].st = "obj" => heap[p].outer
  /\ \A q \in Blocks :
       (ImplLive(heap, q) /\ heap[q].handler_ # NULL
          /\ heap[heap[q].handler_].calls > 0)
         => cancelled_at(heap, q) = {TRUE}
  /\ \A r \in Roots :
       (sigAlive[r] /\ sigHandler[r] # NULL) =>
         LET m2 == emit(M, RootSlot(r))
         IN  \A p \in Subtree(heap, sigHandler[r]) :
               /\ m2.heap[p].calls = heap[p].calls + 1
               /\ m2.heap[p].outer
               /\ LatchedAround(m2, p)

\* two chained States and a handler in the innermost slot that two emits on
\* the root signal have invoked, each time with both States latched
C16_Witness ==
  \E r \in Roots :
    /\ Len(Chain(r)) = 2
    /\ OwnImpl("s1") /\ OwnImpl("s2")
    /\ Innermost(r) # NULL
    /\ heap[Innermost(r)].type = "h2"
    /\ heap[Innermost(r)].calls = 2
    /\ heap[Innermost(r)].outer
    /\ \A st \in States : cancelled(st) = {TRUE}

\* C17: the size recorded in an installed handler object is the size of the
\* block that holds it and is at least the footprint of the handler stored
\* in it; a handler that reuses the block of a larger one records the
\* block's size, not its own footprint.
C17_RecordedSizeIsBlockSize ==
  /\ \A p \in Blocks :
       heap[p].st = "obj" =>
         /\ heap[p].size_ = heap[p].cap
         /\ heap[p].size_ >= sizeof(heap[p].type)
  /\ \A s \in LiveSlots, H \in Handlers \cup {"impl"} :
       \A addr \in MayReturn(M, s, H) :
         LET old == Cell(M, s)
             e   == emplace(M, s, H, "none", addr, TRUE)
         IN  e.ok =>
               /\ e.m.heap[e.p].size_ = e.m.heap[e.p].cap
               /\ e.m.heap[e.p].size_ =
                    IF old # NULL /\ sizeof(H) <= heap[old].size_
                    THEN heap[old].cap ELSE sizeof(H)

\* a State's forwarding handler lives in the block of a larger handler it
\* replaced, and records that block's size
C17_Witness ==
  \E st \in States :
    /\ OwnImpl(st)
    /\ heap[stImpl[st]].size_ = sizeof("h2")
    /\ heap[stImpl[st]].cap = sizeof("h2")
    /\ sizeof(heap[stImpl[st]].type) < heap[stImpl[st]].size_

\* C18: no handler is destroyed while its own invocation is in progress:
\* every handler an emit() invokes, the forwarding handlers whose call is on
\* the stack included, is still the installed object when the emit()
\* returns, also when a handler's body clears or re-emplaces a slot of its
\* own signal or of an ancestor.
C18_AliveUntilCallReturns ==
  \A r \in Roots :
    (sigAlive[r] /\ sigHandler[r] # NULL) =>
      LET m2 == emit(M, RootSlot(r))
      IN  \A p \in Subtree(heap, sigHandler[r]) :
            /\ m2.heap[p].st = "obj"
            /\ m2.heap[p].type = heap[p].type
            /\ m2.heap[p].calls = heap[p].calls + 1
            /\ Refs(m2, p) = Refs(M, p)

\* the blocks reachable from the live root signals
Owned ==
  UNION {Subtree(heap, sigHandler[r]) : r \in {x \in Roots : sigAlive[x]}}

\* C19: block accounting over emplace (successful or failing), clear, State
\* construction and signal destruction: no block is released twice, no
\* signal references a released block, every live block holds a handler
\* that exactly one live signal references, and once a signal is destroyed
\* none of the blocks allocated through its slot or the slots of the child
\* signals of its chain is live.
C19_BlockAccounting ==
  /\ [](/\ \A p \in Blocks :
             /\ heap[p].st \in {"free", "obj"}
             /\ heap[p].st = "obj" => Cardinality(Refs(M, p)) = 1
             /\ heap[p].st = "free" =>
                  heap[p] = FreeBlock /\ Refs(M, p) = {}
        /\ Live(heap) = Owned
        /\ \A r \in Roots : (sigHandler[r] # NULL => sigAlive[r])
        /\ ((\A r \in Roots : ~sigAlive[r]) => Live(heap) = {})
        /\ \A s \in LiveSlots, H \in Handlers \cup {"impl"},
             ctorOk \in BOOLEAN :
             \A addr \in MayReturn(M, s, H) :
               LET e == emplace(M, s, H, "none", addr, ctorOk)
               IN  /\ \A p \in Blocks : e.m.heap[p].st \in {"free", "obj"}
                   /\ Live(e.m.heap) =
                        (Live(heap) \ Subtree(heap, Cell(M, s)))
                          \cup (IF e.ok THEN {e.p} ELSE {})
        /\ \A s \in LiveSlots :
             LET m1 == clear(M, s)
             IN  /\ \A p \in Blocks : m1.heap[p].st \in {"free", "obj"}
                 /\ Live(m1.heap) = Live(heap) \ Subtree(heap, Cell(M, s)))
  /\ [][\A r \in Roots :
          (sigAlive[r] /\ ~sigAlive'[r]) =>
            /\ Live(heap') = Live(heap) \ Subtree(heap, sigHandler[r])
            /\ \A p \in Blocks : heap'[p].st \in {"free", "obj"}]_vars

\* the signal was destroyed after a wait, two chained States and two emits:
\* nothing is live
C19_Witness ==
  \E r \in Roots :
    /\ ~sigAlive[r]
    /\ sigEmitted[r] = 2
    /\ op.st = "pending"
    /\ \A st \in States : stLife[st] = "alive" /\ stImpl[st] # NULL
    /\ stImpl["s1"] # stImpl["s2"]
    /\ Live(heap) = {}

====
